---- MODULE Spec2Model ----
(***************************************************************************)
(* Habit tracker: the completion log (StorageManager), the habit registry  *)
(* (StorageManager + HabitManager), the statistics computed from them (the *)
(* calculate... and get...Stats methods of HabitManager), the habit form   *)
(* (UIManager), the reminders and their timers (NotificationManager),      *)
(* import, clear, start-up and unload (HabitTrackerApp), and a             *)
(* localStorage that may throw.                                            *)
(*                                                                         *)
(* Representation.                                                         *)
(*  - An instant (a JavaScript Date) is a whole number of hours since an   *)
(*    epoch, in UTC.                                                       *)
(*  - A date string 'YYYY-MM-DD' produced by toISOString().split('T')[0]   *)
(*    is represented by the number of its UTC day (instant \div 24); the   *)
(*    ISO format is a bijection between UTC days and such strings.         *)
(*  - Date.prototype.getDate / setDate work on LOCAL time; the local time  *)
(*    zone is part of the environment (variable tz).                       *)
(*  - localStorage holds JSON text; the model holds the parsed values.     *)
(*  - A string whose length matters (a habit's name, its description) is   *)
(*    a sequence of characters; an object is a record, and object spread   *)
(*    is the merge of two records.                                         *)
(***************************************************************************)
EXTENDS Integers, Sequences, FiniteSets, TLC

VARIABLES
    now,            \* the clock: new Date(), in hours since the epoch (UTC)
    tz,             \* the browser's time zone: [std |-> hours, dst |-> BOOLEAN]
    lsHabits,       \* localStorage['habitTracker_habits']: sequence of habits
    lsCompletions,  \* localStorage['habitTracker_completions']: id -> records
    lsSettings,     \* localStorage['habitTracker_settings']
    habits,         \* HabitManager.habits (the in-memory list)
    nextId,         \* number of ids generateId() has handed out so far
    ops,            \* number of user operations counted so far in a session
    page,           \* "unloaded": no scripts run; "loaded": after start-up
    permission,     \* Notification.permission, which checkPermission copies
    storage,        \* localStorage: "ok", "full" (setItem throws) or
                    \* "denied" (every access throws)
    thrown,         \* a StorageManager operation has let an exception out
    reminderIntervals,  \* NotificationManager.reminderIntervals: habit id ->
                        \* the timeout stored for it, [time, message, pending]
    autoSaveInterval,   \* the interval of setupAutoSave is pending
    periodicIntervals,  \* pending intervals of setupPeriodicUpdates
    summaryTimeouts     \* pending timeouts of scheduleDailySummary

\* the timers of the page
timers == <<reminderIntervals, autoSaveInterval, periodicIntervals, summaryTimeouts>>

\* the page and the browser around it
browser == <<page, permission, storage, thrown>>

vars == <<now, tz, lsHabits, lsCompletions, lsSettings, habits, nextId, ops,
          timers, browser>>

\* the state of the program: everything but the operation count
state == <<now, tz, lsHabits, lsCompletions, lsSettings, habits, nextId,
           timers, browser>>

----------------------------------------------------------------------------
(* Bounds of the model *)

MaxHabits == 1      \* ids generated in one run
MaxRecords == 1     \* completion records pushed in one run
MaxOps == 2         \* user operations in one session of the whole application

(* Program constants *)

StreakWindow == 365     \* days looked at by the streak computations

----------------------------------------------------------------------------
(* The clock and the calendar *)

YearHours == 365 * 24

\* Daylight saving time of a zone that observes it starts at 01:00 UTC of
\* day 89 of the year and ends at 01:00 UTC of day 299 (the shape of the
\* European rule: last Sunday of March to last Sunday of October).
DstStart == 89 * 24 + 1
DstEnd == 299 * 24 + 1

\* The first instant of a run: 23:00 UTC on the day after DST started,
\* in the second year of the epoch.  A run covers that day and the next.
StartHour == YearHours + 90 * 24 + 23
LastDay == (StartHour \div 24) + 1

Zones == { [std |-> 0, dst |-> FALSE],     \* UTC
           [std |-> 0, dst |-> TRUE] }     \* Europe/London

InDst(t) == LET y == t % YearHours IN y >= DstStart /\ y < DstEnd

\* LocalTZA(t, true): offset of local time at the UTC instant t
OffsetAtUTC(z, t) == z.std + (IF z.dst /\ InDst(t) THEN 1 ELSE 0)

\* LocalTZA(l, false): offset used to read the local time l; a skipped or
\* repeated local time is read with the offset before the transition
OffsetAtLocal(z, l) == z.std + (IF z.dst /\ InDst(l - z.std - 1) THEN 1 ELSE 0)

\* date.getDate(), with the local time of day: the local reading of t
LocalTime(z, t) == t + OffsetAtUTC(z, t)

\* date.setDate(date.getDate() - i): i days earlier on the local calendar,
\* at the same local time of day; the result as a UTC instant
SetDateBack(z, local, i) ==
    LET moved == local - 24 * i
    IN  moved - OffsetAtLocal(z, moved)

\* toISOString().split('T')[0]: the UTC calendar day of an instant
ISODate(t) == t \div 24

Today == ISODate(now)

----------------------------------------------------------------------------
(* Strings and objects *)

\* a string of n letters, and one of n blanks
Letters(n) == [k \in 1..n |-> "a"]
Blanks(n) == [k \in 1..n |-> " "]

RECURSIVE TrimStart(_)
TrimStart(s) == IF s # <<>> /\ Head(s) = " " THEN TrimStart(Tail(s)) ELSE s

RECURSIVE TrimEnd(_)
TrimEnd(s) ==
    IF s # <<>> /\ s[Len(s)] = " " THEN TrimEnd(SubSeq(s, 1, Len(s) - 1)) ELSE s

\* String.prototype.trim
Trim(s) == TrimEnd(TrimStart(s))

\* { ...obj, ...upd }: the fields of upd, and those of obj that upd lacks
Merge(obj, upd) ==
    [f \in DOMAIN obj \cup DOMAIN upd |-> IF f \in DOMAIN upd THEN upd[f] ELSE obj[f]]

\* the value null returned in place of an object
Null == [null |-> TRUE]

----------------------------------------------------------------------------
(* StorageManager: the completion log *)

\* completions[habitId] || []
RecordsOf(completions, habitId) ==
    IF habitId \in DOMAIN completions THEN completions[habitId] ELSE <<>>

\* (variant: Array.prototype.every in place of some)
HasDateEvery(records, date) == \A k \in 1..Len(records) : records[k].date = date

HasDate(records, date) == \E k \in 1..Len(records) : records[k].date = date

IsHabitCompleted(completions, habitId, date) ==
    IF habitId \in DOMAIN completions
    THEN HasDate(completions[habitId], date)
    ELSE FALSE

\* (variant: pushes a record without looking for an existing one)
MarkHabitCompleteAlwaysPush(completions, habitId, date, t) ==
    LET old == IF habitId \in DOMAIN completions THEN completions[habitId] ELSE <<>>
    IN  [h \in DOMAIN completions \cup {habitId} |->
            IF h = habitId
            THEN Append(old, [date |-> date, timestamp |-> t])
            ELSE completions[h]]

MarkHabitComplete(completions, habitId, date, t) ==
    LET old == RecordsOf(completions, habitId)
        new == IF HasDate(old, date)
               THEN old
               ELSE Append(old, [date |-> date, timestamp |-> t])
    IN  [h \in DOMAIN completions \cup {habitId} |->
            IF h = habitId THEN new ELSE completions[h]]

\* (variant: the filter compares the record's timestamp with the date)
MarkHabitIncompleteByTimestamp(completions, habitId, date) ==
    IF habitId \in DOMAIN completions
    THEN [completions EXCEPT ![habitId] =
            SelectSeq(completions[habitId], LAMBDA c : c.timestamp # date)]
    ELSE completions

\* (variant: drops every record of the habit)
MarkHabitIncompleteDropAll(completions, habitId, date) ==
    IF habitId \in DOMAIN completions
    THEN [completions EXCEPT ![habitId] = <<>>]
    ELSE completions

MarkHabitIncomplete(completions, habitId, date) ==
    IF habitId \in DOMAIN completions
    THEN [completions EXCEPT ![habitId] =
            SelectSeq(completions[habitId], LAMBDA c : c.date # date)]
    ELSE completions

\* the dates of the last `days` days, oldest first
WindowDates(z, t, days) ==
    LET local == LocalTime(z, t)
    IN  [k \in 1..days |-> ISODate(SetDateBack(z, local, days - k))]

GetHabitCompletions(completions, habitId, days, z, t) ==
    LET habitCompletions == RecordsOf(completions, habitId)
        dates == WindowDates(z, t, days)
        mapped == [k \in 1..days |->
                    LET date == dates[k]
                    IN  [date |-> date,
                         completed |-> HasDate(habitCompletions, date)]]
    IN  SubSeq(mapped, 1, days)     \* the array, each entry computed once

----------------------------------------------------------------------------
(* StorageManager: the habit registry *)

\* (variant: the habit's records are left in the log)
DeleteKeyKeepRecords(completions, habitId) == completions

\* delete completions[habitId]
DeleteKey(completions, habitId) ==
    [h \in DOMAIN completions \ {habitId} |-> completions[h]]

\* habit.id = ...; habit.createdAt = ...; habit.updatedAt = ...; push(habit)
StorageAddHabit(hs, habitData, id, t) ==
    Append(hs, Merge(habitData, [id |-> id, createdAt |-> t, updatedAt |-> t]))

\* habits.findIndex(h => h.id === habitId)
FindIndex(hs, habitId) ==
    IF \E k \in 1..Len(hs) : hs[k].id = habitId
    THEN CHOOSE k \in 1..Len(hs) :
            /\ hs[k].id = habitId
            /\ \A j \in 1..(k - 1) : hs[j].id # habitId
    ELSE -1

\* (variant: an unknown id is given a new entry)
StorageUpdateHabitUpsert(hs, habitId, updates, t) ==
    LET index == FindIndex(hs, habitId)
        updated == IF index # -1
                   THEN Merge(Merge(hs[index], updates), [updatedAt |-> t])
                   ELSE Merge(updates, [id |-> habitId, updatedAt |-> t])
    IN  IF index # -1
        THEN [habits |-> [hs EXCEPT ![index] = updated], result |-> updated]
        ELSE [habits |-> Append(hs, updated), result |-> updated]

\* StorageManager.updateHabit: the list saved, and the value returned
StorageUpdateHabit(hs, habitId, updates, t) ==
    LET index == FindIndex(hs, habitId)
        updated == Merge(Merge(hs[index], updates), [updatedAt |-> t])
    IN  IF index # -1
        THEN [habits |-> [hs EXCEPT ![index] = updated], result |-> updated]
        ELSE [habits |-> hs, result |-> Null]

\* StorageManager.getSettings() when the key is absent
DefaultSettings == [notificationsEnabled |-> FALSE, reminderTimes |-> [h \in {} |-> <<>>]]

StorageDeleteHabit(hs, habitId) == SelectSeq(hs, LAMBDA h : h.id # habitId)

HabitIds(hs) == { hs[k].id : k \in 1..Len(hs) }

----------------------------------------------------------------------------
(* StorageManager: import and clear.  A store is the three values kept in  *)
(* localStorage; a document is the value JSON.parse returned.              *)

\* StorageManager.importData: each key the document holds is saved; reading
\* a key of null throws, which the catch turns into false
StorageImportData(store, data) ==
    IF data = Null
    THEN [store |-> store, result |-> FALSE]
    ELSE [store |->
            [habits |-> IF "habits" \in DOMAIN data
                        THEN data.habits ELSE store.habits,
             completions |-> IF "completions" \in DOMAIN data
                             THEN data.completions ELSE store.completions,
             settings |-> IF "settings" \in DOMAIN data
                          THEN data.settings ELSE store.settings],
          result |-> TRUE]

\* StorageManager.clearAllData: the three keys are removed, and the getters
\* answer for an absent key with [], {} and the default settings
StorageClearAllData ==
    [habits |-> <<>>, completions |-> [h \in {} |-> <<>>], settings |-> DefaultSettings]

\* an export that leaves the settings out
ExportDataNoSettings(store, t) ==
    [habits |-> store.habits, completions |-> store.completions, exportDate |-> t]

\* StorageManager.exportData: what the three getters return, and the instant
ExportData(store, t) ==
    [habits |-> store.habits, completions |-> store.completions,
     settings |-> store.settings, exportDate |-> t]

\* NotificationManager.loadReminders: the habits it calls scheduleReminder
\* for, those of the list with a stored reminder time
RemindedHabits(settings, hs) ==
    { h \in HabitIds(hs) \cap DOMAIN settings.reminderTimes :
        settings.reminderTimes[h].time # "" }

\* NotificationManager.loadReminders: every habit with a stored reminder
\* time is scheduled again, which rewrites its entry as {time, message}
LoadReminders(settings, hs) ==
    LET times == settings.reminderTimes
    IN  [settings EXCEPT !.reminderTimes =
            [h \in DOMAIN times |->
                IF h \in HabitIds(hs)
                THEN [time |-> times[h].time, message |-> times[h].message]
                ELSE times[h]]]

----------------------------------------------------------------------------
(* HabitManager: statistics *)

RECURSIVE LeadingCompleted(_, _)
LeadingCompleted(cs, i) ==
    IF i > Len(cs) THEN 0
    ELSE IF cs[i].completed THEN 1 + LeadingCompleted(cs, i + 1)
    ELSE 0

\* the loop of calculateCurrentStreak: from index 0 up to the first entry
\* that is not completed
CalculateCurrentStreak(completions, habitId, z, t) ==
    LeadingCompleted(GetHabitCompletions(completions, habitId, StreakWindow, z, t), 1)

\* the value of the loop variable currentStreak of calculateLongestStreak
\* after the iteration on entry k: incremented on a completed entry, reset
\* to 0 on any other
RECURSIVE StreakAfter(_, _)
StreakAfter(cs, k) ==
    IF k < 1 THEN 0
    ELSE IF cs[k].completed THEN StreakAfter(cs, k - 1) + 1
    ELSE 0

\* longestStreak after the loop: the largest value currentStreak took
MaxOf(S) == CHOOSE n \in S : \A m \in S : m <= n

\* (variant: the window left at getHabitCompletions' default of 30 days)
CalculateLongestStreakDefaultDays(completions, habitId, z, t) ==
    LET cs == GetHabitCompletions(completions, habitId, 30, z, t)
    IN  MaxOf({0} \cup { StreakAfter(cs, k) : k \in 1..Len(cs) })

CalculateLongestStreak(completions, habitId, z, t) ==
    LET cs == GetHabitCompletions(completions, habitId, StreakWindow, z, t)
    IN  MaxOf({0} \cup { StreakAfter(cs, k) : k \in 1..Len(cs) })

\* round-half-up of num / den, for num >= 0 and den > 0
HalfUp(num, den) == (2 * num + den) \div (2 * den)

\* (c / d) * 100 is evaluated in IEEE-754 double precision.  For these
\* pairs 100 * c / d is exactly x.5 and the double product is the double
\* just below x.5 (23 / 40 * 100 = 57.49999999999999); for every other
\* pair with 0 <= c <= 365 and 0 < d <= 365 the double rounds as the exact
\* quotient.
DoubleBelowHalf(c, d) ==
    \/ \E a \in {23, 41, 51, 87, 97, 169, 179, 189, 199, 323, 333, 343, 353, 363} :
          c > 0 /\ 40 * c = a * d
    \/ \E a \in {29, 57, 113, 201, 203, 207, 251, 253} :
          c > 0 /\ 200 * c = a * d

\* Math.round((c / d) * 100)
MathRoundPercent(c, d) ==
    IF DoubleBelowHalf(c, d) THEN HalfUp(100 * c, d) - 1 ELSE HalfUp(100 * c, d)

CompletedCount(cs) == Cardinality({ k \in 1..Len(cs) : cs[k].completed })

\* (variant: counts every record of the habit, not those of the window)
CalculateCompletionRateAllRecords(completions, habitId, days, z, t) ==
    MathRoundPercent(Len(RecordsOf(completions, habitId)), days)

CalculateCompletionRate(completions, habitId, days, z, t) ==
    LET cs == GetHabitCompletions(completions, habitId, days, z, t)
    IN  MathRoundPercent(CompletedCount(cs), days)

\* HabitManager.getHabit: this.habits.find(h => h.id === habitId), Null for
\* undefined
GetHabit(hs, habitId) ==
    IF FindIndex(hs, habitId) = -1 THEN Null ELSE hs[FindIndex(hs, habitId)]

StatsWindow == 365      \* days counted by totalCompletions
ExportWindow == 365     \* days exported by exportHabitData
PossibleDaysCap == 365  \* cap of a habit's days since creation

\* HabitManager.getHabitStats, asked of the list hs the manager holds
GetHabitStats(hs, completions, habitId, z, t) ==
    IF GetHabit(hs, habitId) = Null
    THEN Null
    ELSE [habit |-> GetHabit(hs, habitId),
          currentStreak |-> CalculateCurrentStreak(completions, habitId, z, t),
          longestStreak |-> CalculateLongestStreak(completions, habitId, z, t),
          completionRate30 |-> CalculateCompletionRate(completions, habitId, 30, z, t),
          completionRate7 |-> CalculateCompletionRate(completions, habitId, 7, z, t),
          totalCompletions |->
            CompletedCount(GetHabitCompletions(completions, habitId, StatsWindow, z, t))]

\* HabitManager.exportHabitData
ExportHabitData(hs, completions, habitId, z, t) ==
    IF GetHabit(hs, habitId) = Null
    THEN Null
    ELSE [habit |-> GetHabit(hs, habitId),
          completions |-> GetHabitCompletions(completions, habitId, ExportWindow, z, t),
          stats |-> GetHabitStats(hs, completions, habitId, z, t),
          exportDate |-> t]

\* Math.ceil(a / b) for b > 0
Ceil(a, b) == -((-a) \div b)

\* Math.ceil((new Date() - createdDate) / (1000 * 60 * 60 * 24))
DaysSinceCreation(createdAt, t) == Ceil(t - createdAt, 24)

Min(a, b) == IF a <= b THEN a ELSE b

RECURSIVE SumSeq(_, _)
SumSeq(xs, k) == IF k < 1 THEN 0 ELSE xs[k] + SumSeq(xs, k - 1)

\* totalPossibleDays after the forEach over this.habits
TotalPossibleDays(hs, t) ==
    SumSeq([k \in 1..Len(hs) |->
                Min(DaysSinceCreation(hs[k].createdAt, t), PossibleDaysCap)], Len(hs))

\* the counters of getOverallStats after its forEach over this.habits
OverallTotals(hs, completions, z, t) ==
    LET today == ISODate(t)
        n == Len(hs)
        stats == SubSeq([k \in 1..n |->
                            GetHabitStats(hs, completions, hs[k].id, z, t)], 1, n)
        counts == [k \in 1..n |->
                    IF stats[k] # Null THEN stats[k].totalCompletions ELSE 0]
    IN  [totalHabits |-> n,
         completedToday |->
            Cardinality({ k \in 1..n :
                            IsHabitCompleted(completions, hs[k].id, today) }),
         bestStreak |->
            MaxOf({0} \cup { stats[k].longestStreak : k \in { j \in 1..n : stats[j] # Null } }),
         totalCompletions |-> SumSeq(counts, n),
         totalPossibleDays |-> TotalPossibleDays(hs, t)]

\* the number NaN that a division 0 / 0 gives, as a value no percentage takes
NaN == 0 - 1

\* (variant: the percentages are computed without the tests for 0)
GetOverallStatsUnguarded(hs, completions, z, t) ==
    LET a == OverallTotals(hs, completions, z, t)
    IN  [totalHabits |-> a.totalHabits,
         todayProgress |->
            IF a.totalHabits # 0
            THEN MathRoundPercent(a.completedToday, a.totalHabits) ELSE NaN,
         bestStreak |-> a.bestStreak,
         overallSuccess |->
            IF a.totalPossibleDays # 0
            THEN MathRoundPercent(a.totalCompletions, a.totalPossibleDays) ELSE NaN,
         completedToday |-> a.completedToday,
         totalCompletions |-> a.totalCompletions]

\* HabitManager.getOverallStats
GetOverallStats(hs, completions, z, t) ==
    LET a == OverallTotals(hs, completions, z, t)
    IN  [totalHabits |-> a.totalHabits,
         todayProgress |->
            IF a.totalHabits > 0
            THEN MathRoundPercent(a.completedToday, a.totalHabits) ELSE 0,
         bestStreak |-> a.bestStreak,
         overallSuccess |->
            IF a.totalPossibleDays > 0
            THEN MathRoundPercent(a.totalCompletions, a.totalPossibleDays) ELSE 0,
         completedToday |-> a.completedToday,
         totalCompletions |-> a.totalCompletions]

\* HabitManager.validateHabitData: the error messages pushed, in order
MaxNameLength == 100
MaxDescriptionLength == 500

NameRequired == "Habit name is required"
FrequencyRequired == "Valid frequency is required (daily or weekly)"
NameTooLong == "Habit name is too long (max 100 characters)"
DescriptionTooLong == "Description is too long (max 500 characters)"

ValidationErrors(habitData) ==
    (IF habitData.name = <<>> \/ Len(Trim(habitData.name)) = 0
     THEN <<NameRequired>> ELSE <<>>)
    \o (IF habitData.frequency = "" \/ habitData.frequency \notin {"daily", "weekly"}
        THEN <<FrequencyRequired>> ELSE <<>>)
    \o (IF habitData.name # <<>> /\ Len(Trim(habitData.name)) > MaxNameLength
        THEN <<NameTooLong>> ELSE <<>>)
    \o (IF habitData.description # <<>>
           /\ Len(habitData.description) > MaxDescriptionLength
        THEN <<DescriptionTooLong>> ELSE <<>>)

ValidateHabitData(habitData) ==
    LET errors == ValidationErrors(habitData)
    IN  [isValid |-> Len(errors) = 0, errors |-> errors]

----------------------------------------------------------------------------
(* NotificationManager: the reminder settings *)

\* NotificationManager.scheduleReminder, as far as the settings go: the
\* permission test never returns (!this.permission === 'granted' is false
\* for every permission); a habit the manager does not hold is refused
ScheduleReminder(settings, hs, habitId, time, message) ==
    IF habitId \notin HabitIds(hs)
    THEN settings
    ELSE LET times == settings.reminderTimes
         IN  [settings EXCEPT !.reminderTimes =
                [h \in DOMAIN times \cup {habitId} |->
                    IF h = habitId THEN [time |-> time, message |-> message]
                    ELSE times[h]]]

\* NotificationManager.scheduleDailySummary: one more timeout, whose id is
\* not kept
ScheduleDailySummary(pending) == pending + 1

\* HabitTrackerApp.setupPeriodicUpdates: two more intervals, whose ids are
\* not kept
SetupPeriodicUpdates(pending) == pending + 2

\* NotificationManager.reminderIntervals of a new manager: {}
NoReminders == [h \in {} |-> <<>>]

\* NotificationManager.scheduleReminder, as far as the timers go: the
\* timeout stored for the habit is cleared and a new one is stored, whose
\* callback holds the time and the message
SetReminder(intervals, habitId, time, message) ==
    [h \in DOMAIN intervals \cup {habitId} |->
        IF h = habitId
        THEN [time |-> time, message |-> message, pending |-> TRUE]
        ELSE intervals[h]]

\* NotificationManager.loadReminders, as far as the timers go
LoadedReminders(intervals, settings, hs) ==
    LET reminded == RemindedHabits(settings, hs)
    IN  [h \in DOMAIN intervals \cup reminded |->
            IF h \in reminded
            THEN [time |-> settings.reminderTimes[h].time,
                  message |-> settings.reminderTimes[h].message, pending |-> TRUE]
            ELSE intervals[h]]

\* NotificationManager.clearReminder for each of the ids, as far as the
\* settings go: the entries of the ids are deleted
ClearReminders(settings, ids) ==
    [settings EXCEPT !.reminderTimes =
        [h \in DOMAIN settings.reminderTimes \ ids |-> settings.reminderTimes[h]]]

----------------------------------------------------------------------------
(* Initial states: the application has started on whatever localStorage    *)
(* holds, with the timers start-up leaves pending.                         *)

Read == <<"R", "e", "a", "d">>

HabitInputs == { [name |-> Read, frequency |-> "daily"] }

\* lengths of the run of consecutive completed days, ending on the day of
\* the first instant, that a store found at start-up may hold
InitialRuns == {23}

EmptyCompletions == [h \in {} |-> <<>>]

\* a store left by earlier sessions: habit 1, created 30 days ago, marked
\* complete (at noon) on each of the last n days
StoredHabits == << [id |-> 1, name |-> Read, frequency |-> "daily",
                    createdAt |-> StartHour - 30 * 24,
                    updatedAt |-> StartHour - 30 * 24] >>

StoredRun(n) ==
    [h \in {1} |->
        [k \in 1..n |-> [date |-> ISODate(StartHour) - n + k,
                         timestamp |-> (ISODate(StartHour) - n + k) * 24 + 12]]]

Init ==
    /\ now = StartHour
    /\ tz \in Zones
    /\ \/ /\ lsHabits = <<>>
          /\ lsCompletions = EmptyCompletions
          /\ nextId = 0
       \/ \E n \in InitialRuns :
          /\ lsHabits = StoredHabits
          /\ lsCompletions = StoredRun(n)
          /\ nextId = 1
    /\ lsSettings = DefaultSettings
    /\ habits = lsHabits
    /\ ops = 0
    /\ page = "loaded"
    /\ permission = "default"
    /\ storage = "ok"
    /\ thrown = FALSE
    /\ reminderIntervals = NoReminders
    /\ autoSaveInterval = TRUE
    /\ periodicIntervals = SetupPeriodicUpdates(0)
    /\ summaryTimeouts = ScheduleDailySummary(ScheduleDailySummary(0))

----------------------------------------------------------------------------
(* Operations *)

\* what the three keys of localStorage hold
Store == [habits |-> lsHabits, completions |-> lsCompletions, settings |-> lsSettings]

\* StorageManager.getHabits, getCompletions, getSettings: a getItem that
\* throws is caught and answered with the default
GetHabits == IF storage = "denied" THEN <<>> ELSE lsHabits
GetCompletions == IF storage = "denied" THEN EmptyCompletions ELSE lsCompletions
GetSettings == IF storage = "denied" THEN DefaultSettings ELSE lsSettings

\* StorageManager.saveHabits, saveCompletions, saveSettings: what the key
\* holds afterwards; a setItem that throws is caught and the value dropped
Saved(old, value) == IF storage = "ok" THEN value ELSE old

\* records pushed since the first instant of the run
RECURSIVE PushedSince(_, _)
PushedSince(completions, ids) ==
    IF ids = {} THEN 0
    ELSE LET h == CHOOSE x \in ids : TRUE
         IN  Cardinality({ k \in 1..Len(completions[h]) :
                              completions[h][k].timestamp >= StartHour })
             + PushedSince(completions, ids \ {h})

MarkOffsets == {0, 1, 364}
MarkDates == { Today - k : k \in MarkOffsets }

\* HabitManager.addHabit -> StorageManager.addHabit
AddHabit(habitData) ==
    /\ nextId < MaxHabits
    /\ LET id == nextId + 1
           stored == StorageAddHabit(GetHabits, habitData, id, now)
       IN  /\ lsHabits' = Saved(lsHabits, stored)
           /\ habits' = Append(habits, stored[Len(stored)])
           /\ nextId' = id
    /\ UNCHANGED <<now, tz, lsCompletions, lsSettings, timers, browser>>

\* HabitManager.deleteHabit -> StorageManager.deleteHabit
DeleteHabit(habitId) ==
    /\ lsHabits' = Saved(lsHabits, StorageDeleteHabit(GetHabits, habitId))
    /\ lsCompletions' = Saved(lsCompletions, DeleteKey(GetCompletions, habitId))
    /\ habits' = SelectSeq(habits, LAMBDA h : h.id # habitId)
    /\ UNCHANGED <<now, tz, lsSettings, nextId, timers, browser>>

\* HabitManager.markComplete -> StorageManager.markHabitComplete
MarkComplete(habitId, date) ==
    /\ \/ IsHabitCompleted(lsCompletions, habitId, date)
       \/ PushedSince(lsCompletions, DOMAIN lsCompletions) < MaxRecords
    /\ lsCompletions' = Saved(lsCompletions,
                               MarkHabitComplete(GetCompletions, habitId, date, now))
    /\ UNCHANGED <<now, tz, lsHabits, lsSettings, habits, nextId, timers, browser>>

\* HabitManager.markIncomplete -> StorageManager.markHabitIncomplete
MarkIncomplete(habitId, date) ==
    /\ lsCompletions' = Saved(lsCompletions,
                               MarkHabitIncomplete(GetCompletions, habitId, date))
    /\ UNCHANGED <<now, tz, lsHabits, lsSettings, habits, nextId, timers, browser>>

\* a day passes
Tick ==
    /\ ISODate(now) < LastDay
    /\ now' = now + 24
    /\ UNCHANGED <<tz, lsHabits, lsCompletions, lsSettings, habits, nextId,
                   timers, browser>>

\* an hour passes, within the first two hours of a session
TickHour ==
    /\ now < StartHour + 2
    /\ now' = now + 1
    /\ UNCHANGED <<tz, lsHabits, lsCompletions, lsSettings, habits, nextId,
                   timers, browser>>

\* a backup made elsewhere: habits 0 and -1, created at 00:00 UTC 40 days
\* before the first day ends, each marked complete on each of 23 days, and
\* a reminder for habit 0
ImportedHabit(id) ==
    [id |-> id, name |-> Read, frequency |-> "daily",
     createdAt |-> StartHour + 1 - 40 * 24, updatedAt |-> StartHour + 1 - 40 * 24]

ImportedHabits == << ImportedHabit(0), ImportedHabit(-1) >>

ImportedRun == [h \in {0, -1} |-> StoredRun(23)[1]]

ImportedSettings ==
    [notificationsEnabled |-> TRUE,
     reminderTimes |-> [h \in {0} |-> [time |-> "08:00", message |-> "Read"]]]

\* a log holding two records of habit 0 for one day
RepeatedDayLog ==
    [h \in {0} |-> << [date |-> ISODate(StartHour), timestamp |-> StartHour - 2],
                      [date |-> ISODate(StartHour), timestamp |-> StartHour - 1] >>]

\* the documents a chosen file may hold
ImportDocs ==
    { [habits |-> ImportedHabits, completions |-> ImportedRun,
       settings |-> ImportedSettings, exportDate |-> StartHour - 24],
      [habits |-> ImportedHabits, completions |-> RepeatedDayLog,
       settings |-> ImportedSettings, exportDate |-> StartHour - 24],
      [habits |-> ImportedHabits],
      [exportDate |-> StartHour - 24],
      Null }

\* HabitTrackerApp.importData, from reader.onload on
ImportData(data) ==
    LET imported == StorageImportData(
                        [habits |-> lsHabits, completions |-> lsCompletions,
                         settings |-> lsSettings], data)
        \* what the keys hold after the three saves
        kept == [k \in {"habits", "completions", "settings"} |->
                    Saved(Store[k], imported.store[k])]
        \* habitManager.loadHabits and the getSettings of loadReminders
        loaded == IF storage = "denied" THEN <<>> ELSE kept.habits
        settings == IF storage = "denied" THEN DefaultSettings ELSE kept.settings
    IN  /\ lsHabits' = kept.habits
        /\ lsCompletions' = kept.completions
        /\ IF imported.result
           THEN /\ habits' = loaded
                /\ lsSettings' = Saved(kept.settings, LoadReminders(settings, loaded))
                /\ reminderIntervals' =
                        LoadedReminders(reminderIntervals, settings, loaded)
           ELSE /\ habits' = habits
                /\ lsSettings' = kept.settings
                /\ reminderIntervals' = reminderIntervals
        /\ UNCHANGED <<now, tz, nextId, autoSaveInterval, periodicIntervals,
                       summaryTimeouts, browser>>

\* HabitTrackerApp.clearAllData, once confirmed
\* storage.clearAllData calls removeItem outside any try: when localStorage
\* throws on access the exception leaves the StorageManager and the catch of
\* the application skips loadHabits and clearAllReminders; a full
\* localStorage still removes.  clearAllReminders then clears every timer
\* and deletes its entry from the settings, which are the default already.
ClearAllData ==
    IF storage = "denied"
    THEN /\ thrown' = TRUE
         /\ UNCHANGED <<now, tz, lsHabits, lsCompletions, lsSettings, habits,
                        nextId, timers, page, permission, storage>>
    ELSE /\ lsHabits' = StorageClearAllData.habits
         /\ lsCompletions' = StorageClearAllData.completions
         /\ lsSettings' = StorageClearAllData.settings
         /\ habits' = StorageClearAllData.habits
         /\ reminderIntervals' = NoReminders
         /\ UNCHANGED <<now, tz, nextId, autoSaveInterval, periodicIntervals,
                        summaryTimeouts, browser>>

\* HabitManager.updateHabit -> StorageManager.updateHabit
UpdateHabit(habitId, updates) ==
    LET stored == StorageUpdateHabit(GetHabits, habitId, updates, now)
        index == FindIndex(habits, habitId)
    IN  /\ lsHabits' = Saved(lsHabits, stored.habits)
        /\ habits' = IF stored.result # Null /\ index # -1
                     THEN [habits EXCEPT ![index] = stored.result]
                     ELSE habits
        /\ UNCHANGED <<now, tz, lsCompletions, lsSettings, nextId, timers, browser>>

\* updates objects handed to updateHabit
Walk == <<"W", "a", "l", "k">>

UpdateInputs ==
    { [frequency |-> "weekly"],
      [name |-> Walk, id |-> 0, createdAt |-> now] }

\* what the habit form may hold when it is submitted
FormInputs ==
    { [name |-> n, description |-> d, frequency |-> f, reminderTime |-> r,
       reminderMessage |-> "", tags |-> <<>>] :
        n \in {Walk}, d \in {<<>>}, f \in {"daily"}, r \in {"", "08:00"} }
    \cup
    { [name |-> n, description |-> <<>>, frequency |-> f, reminderTime |-> "08:00",
       reminderMessage |-> "", tags |-> <<>>] :
        n \in {Blanks(3), Letters(MaxNameLength + 1),
               Letters(MaxNameLength) \o Blanks(1)},
        f \in {"daily", "monthly"} }
    \cup
    { [name |-> Walk, description |-> Letters(MaxDescriptionLength + 1),
       frequency |-> "weekly", reminderTime |-> "08:00",
       reminderMessage |-> "", tags |-> <<>>] }

\* the habits the edit form may have been opened on; Null: the add form
EditingHabits == {Null} \cup { habits[k] : k \in 1..Len(habits) }

\* UIManager.handleHabitFormSubmit
SubmitHabitForm(currentEditingHabit, habitData) ==
    IF ~ValidateHabitData(habitData).isValid
    THEN UNCHANGED state
    ELSE LET editing == currentEditingHabit # Null
             id == nextId + 1
             stored == IF editing
                       THEN StorageUpdateHabit(GetHabits, currentEditingHabit.id,
                                               habitData, now).habits
                       ELSE StorageAddHabit(GetHabits, habitData, id, now)
             updated == StorageUpdateHabit(GetHabits, currentEditingHabit.id,
                                           habitData, now).result
             index == FindIndex(habits, currentEditingHabit.id)
             held == IF ~editing
                     THEN Append(habits, stored[Len(stored)])
                     ELSE IF updated # Null /\ index # -1
                     THEN [habits EXCEPT ![index] = updated]
                     ELSE habits
             habitId == IF editing THEN currentEditingHabit.id
                        ELSE held[Len(held)].id
         IN  /\ editing \/ nextId < MaxHabits
             /\ lsHabits' = Saved(lsHabits, stored)
             /\ habits' = held
             /\ nextId' = IF editing THEN nextId ELSE id
             /\ lsSettings' = IF habitData.reminderTime # ""
                              THEN Saved(lsSettings,
                                         ScheduleReminder(GetSettings, held, habitId,
                                                          habitData.reminderTime,
                                                          habitData.reminderMessage))
                              ELSE lsSettings
             /\ reminderIntervals' =
                    IF habitData.reminderTime # "" /\ habitId \in HabitIds(held)
                    THEN SetReminder(reminderIntervals, habitId,
                                     habitData.reminderTime, habitData.reminderMessage)
                    ELSE reminderIntervals
             /\ UNCHANGED <<now, tz, lsCompletions, autoSaveInterval,
                            periodicIntervals, summaryTimeouts, browser>>

Next ==
    \/ \E d \in HabitInputs : AddHabit(d) /\ UNCHANGED ops
    \/ \E h \in 1..nextId : DeleteHabit(h) /\ UNCHANGED ops
    \/ \E h \in 1..nextId, d \in MarkDates : MarkComplete(h, d) /\ UNCHANGED ops
    \/ \E h \in 1..nextId, d \in MarkDates : MarkIncomplete(h, d) /\ UNCHANGED ops
    \/ Tick /\ UNCHANGED ops

Spec == Init /\ [][Next]_vars

\* the ids operations are asked for: those handed out, and the ids 0 and -1
\* of the imported documents
AppIds == (-1)..nextId

\* one more user operation of the session
CountOp == ops < MaxOps /\ ops' = ops + 1

\* the whole application: the operations above on every id, the habit
\* form, updates, import and clear, and a clock that moves by the hour
NextApp ==
    \/ \E d \in HabitInputs : CountOp /\ AddHabit(d)
    \/ \E h \in AppIds : CountOp /\ DeleteHabit(h)
    \/ \E h \in AppIds, d \in MarkDates : CountOp /\ MarkComplete(h, d)
    \/ \E h \in AppIds, d \in MarkDates : CountOp /\ MarkIncomplete(h, d)
    \/ \E h \in AppIds, u \in UpdateInputs : CountOp /\ UpdateHabit(h, u)
    \/ \E e \in EditingHabits, d \in FormInputs : CountOp /\ SubmitHabitForm(e, d)
    \/ \E data \in ImportDocs : CountOp /\ ImportData(data)
    \/ CountOp /\ ClearAllData
    \/ TickHour /\ UNCHANGED ops

SpecApp == Init /\ [][NextApp]_vars

----------------------------------------------------------------------------
(* The page: start-up and unload, the timers, the toggle of the habit      *)
(* list, and a localStorage that begins or ceases to throw.                *)

\* lengths of the run of completed days that the store may hold when the
\* page is opened
PageRuns == {7, 14}

\* a store left by earlier sessions: habit 1, created 364 days before the
\* first day, marked complete (at noon) on its first n days
OldHabits == << [id |-> 1, name |-> Read, frequency |-> "daily",
                 createdAt |-> (ISODate(StartHour) - 364) * 24,
                 updatedAt |-> (ISODate(StartHour) - 364) * 24] >>

OldRun(n) ==
    [h \in {1} |->
        [k \in 1..n |-> [date |-> ISODate(StartHour) - 365 + k,
                         timestamp |-> (ISODate(StartHour) - 365 + k) * 24 + 12]]]

\* the browser before the scripts run, on a store left by earlier sessions
InitPage ==
    /\ now = StartHour
    /\ tz \in Zones
    /\ \/ /\ lsHabits = <<>>
          /\ lsCompletions = EmptyCompletions
          /\ nextId = 0
       \/ \E n \in PageRuns :
          /\ lsHabits = OldHabits
          /\ lsCompletions = OldRun(n)
          /\ nextId = 1
    /\ lsSettings = DefaultSettings
    /\ habits = <<>>
    /\ ops = 0
    /\ page = "unloaded"
    /\ permission \in {"default", "granted"}
    /\ storage = "ok"
    /\ thrown = FALSE
    /\ reminderIntervals = NoReminders
    /\ autoSaveInterval = FALSE
    /\ periodicIntervals = 0
    /\ summaryTimeouts = 0

\* The scripts run and DOMContentLoaded creates the application.  The
\* managers are constructed (HabitManager loads the habits); init() runs
\* initializeModules (notificationManager.init: one daily-summary timeout),
\* setupAutoSave, setupPeriodicUpdates, uiManager.init (notificationManager
\* .init again: one more timeout) and notificationManager.loadReminders.
Load ==
    /\ page = "unloaded"
    /\ page' = "loaded"
    /\ habits' = GetHabits
    /\ reminderIntervals' = LoadedReminders(NoReminders, GetSettings, GetHabits)
    /\ lsSettings' = Saved(lsSettings, LoadReminders(GetSettings, GetHabits))
    /\ autoSaveInterval' = TRUE
    /\ periodicIntervals' = SetupPeriodicUpdates(0)
    /\ summaryTimeouts' = ScheduleDailySummary(ScheduleDailySummary(0))
    /\ UNCHANGED <<now, tz, lsHabits, lsCompletions, nextId, permission,
                   storage, thrown>>

\* beforeunload: HabitTrackerApp.cleanup and handleBeforeUnload.  The
\* auto-save interval is cleared; clearAllReminders clears the timeout of
\* every key of reminderIntervals and deletes its entry from the settings.
Unload ==
    /\ page = "loaded"
    /\ page' = "unloaded"
    /\ autoSaveInterval' = FALSE
    /\ reminderIntervals' = NoReminders
    /\ lsSettings' = Saved(lsSettings,
                           ClearReminders(GetSettings, DOMAIN reminderIntervals))
    /\ UNCHANGED <<now, tz, lsHabits, lsCompletions, habits, nextId,
                   periodicIntervals, summaryTimeouts, permission, storage, thrown>>

StorageModes == {"ok", "full", "denied"}

\* localStorage begins or ceases to throw
StorageChanges(mode) ==
    /\ storage # mode
    /\ storage' = mode
    /\ UNCHANGED <<now, tz, lsHabits, lsCompletions, lsSettings, habits, nextId,
                   timers, page, permission, thrown>>

\* The callback of a reminder timeout: sendHabitReminder, then
\* scheduleReminder.  sendHabitReminder returns at once for a habit the
\* manager does not hold, and scheduleReminder then refuses it.  With
\* permission granted sendNotification returns true, on which
\* sendHabitReminder calls addEventListener: a TypeError that ends the
\* callback before scheduleReminder.  Otherwise sendNotification returns
\* false and the reminder is scheduled again.
ReminderFires(habitId) ==
    LET timeout == reminderIntervals[habitId]
        again == habitId \in HabitIds(habits) /\ permission # "granted"
    IN  /\ timeout.pending
        /\ reminderIntervals' =
                [reminderIntervals EXCEPT ![habitId].pending = again]
        /\ lsSettings' = IF again
                         THEN Saved(lsSettings,
                                    ScheduleReminder(GetSettings, habits, habitId,
                                                     timeout.time, timeout.message))
                         ELSE lsSettings
        /\ UNCHANGED <<now, tz, lsHabits, lsCompletions, habits, nextId,
                       autoSaveInterval, periodicIntervals, summaryTimeouts,
                       browser>>

\* The callback of a daily-summary timeout: sendDailySummary, then
\* scheduleDailySummary
SummaryFires ==
    /\ summaryTimeouts > 0
    /\ summaryTimeouts' = ScheduleDailySummary(summaryTimeouts - 1)
    /\ UNCHANGED <<now, tz, lsHabits, lsCompletions, lsSettings, habits, nextId,
                   reminderIntervals, autoSaveInterval, periodicIntervals, browser>>

\* UIManager.toggleHabitCompletion on a habit of the list, confirmed
ToggleHabitCompletion(habitId) ==
    /\ habitId \in HabitIds(habits)
    /\ IF IsHabitCompleted(GetCompletions, habitId, Today)
       THEN MarkIncomplete(habitId, Today)
       ELSE MarkComplete(habitId, Today)

\* UIManager.toggleHabitCompletion: the calls of sendStreakNotification it
\* makes after markComplete, [habitId, streakCount]
ToggleNotifications(hs, completions, habitId, z, t) ==
    LET stats == GetHabitStats(hs, completions, habitId, z, t)
    IN  IF stats.currentStreak % 7 = 0 /\ stats.currentStreak > 0
        THEN { [habitId |-> habitId, streakCount |-> stats.currentStreak] }
        ELSE {}

\* HabitTrackerApp.checkStreakMilestones: the calls of
\* sendStreakNotification it makes
Milestones == {7, 30, 100}

CheckStreakMilestones(hs, completions, z, t) ==
    { [habitId |-> hs[k].id, streakCount |-> m] :
        <<k, m>> \in { x \in (1..Len(hs)) \X Milestones :
            LET stats == GetHabitStats(hs, completions, hs[x[1]].id, z, t)
            IN  stats # Null /\ stats.currentStreak > 0
                             /\ stats.currentStreak = x[2] } }

\* UIManager.deleteHabit on a habit of the list, confirmed:
\* habitManager.deleteHabit, then notificationManager.clearReminder
UIDeleteHabit(habitId) ==
    /\ habitId \in HabitIds(habits)
    /\ lsHabits' = Saved(lsHabits, StorageDeleteHabit(GetHabits, habitId))
    /\ lsCompletions' = Saved(lsCompletions, DeleteKey(GetCompletions, habitId))
    /\ habits' = SelectSeq(habits, LAMBDA h : h.id # habitId)
    /\ reminderIntervals' =
            [h \in DOMAIN reminderIntervals \ {habitId} |-> reminderIntervals[h]]
    /\ lsSettings' = Saved(lsSettings, ClearReminders(GetSettings, {habitId}))
    /\ UNCHANGED <<now, tz, nextId, autoSaveInterval, periodicIntervals,
                   summaryTimeouts, browser>>

\* the scripts have run
Loaded == page = "loaded"

\* the page from before its start-up on: the operations of the loaded page,
\* counted, the callbacks of its timers, the hours, and the store's failures
NextPage ==
    \/ Load /\ UNCHANGED ops
    \/ Unload /\ UNCHANGED ops
    \/ \E m \in StorageModes : CountOp /\ StorageChanges(m)
    \/ \E d \in HabitInputs : Loaded /\ CountOp /\ AddHabit(d)
    \/ \E h \in AppIds : Loaded /\ CountOp /\ DeleteHabit(h)
    \/ \E h \in AppIds : Loaded /\ CountOp /\ UIDeleteHabit(h)
    \/ \E h \in AppIds : Loaded /\ CountOp /\ ToggleHabitCompletion(h)
    \/ \E h \in AppIds, u \in UpdateInputs : Loaded /\ CountOp /\ UpdateHabit(h, u)
    \/ \E e \in EditingHabits, d \in FormInputs :
            Loaded /\ CountOp /\ SubmitHabitForm(e, d)
    \/ \E data \in ImportDocs : Loaded /\ CountOp /\ ImportData(data)
    \/ Loaded /\ CountOp /\ ClearAllData
    \/ \E h \in DOMAIN reminderIntervals : Loaded /\ ReminderFires(h) /\ UNCHANGED ops
    \/ Loaded /\ SummaryFires /\ UNCHANGED ops
    \/ TickHour /\ UNCHANGED ops

SpecPage == InitPage /\ [][NextPage]_vars

----------------------------------------------------------------------------
(* What the statistics are meant to be, stated on the calendar: day d is   *)
(* completed for habit h when the log holds a record (h, d).               *)

CompletedDates(completions, habitId) ==
    LET rs == RecordsOf(completions, habitId)
    IN  { rs[k].date : k \in 1..Len(rs) }

\* the `days` most recent calendar days ending today, inclusive
RecentDays(days) == (Today - (days - 1))..Today

\* number of consecutive days in D counted backward from day d
RECURSIVE RunBack(_, _)
RunBack(D, d) == IF d \in D THEN 1 + RunBack(D \ {d}, d - 1) ELSE 0

\* consecutive completed days counted backward from today, within the
\* StreakWindow most recent days
BackwardStreak(habitId) ==
    RunBack(CompletedDates(lsCompletions, habitId) \cap RecentDays(StreakWindow), Today)

\* longest run of consecutive completed days among the StreakWindow most
\* recent days
LongestRun(habitId) ==
    LET D == CompletedDates(lsCompletions, habitId) \cap RecentDays(StreakWindow)
    IN  MaxOf({0} \cup { RunBack(D, d) : d \in D })

CurrentStreak(habitId) == CalculateCurrentStreak(lsCompletions, habitId, tz, now)
LongestStreak(habitId) == CalculateLongestStreak(lsCompletions, habitId, tz, now)
CompletionRate(habitId, days) ==
    CalculateCompletionRate(lsCompletions, habitId, days, tz, now)

\* every id generateId() has handed out, in the registry or deleted
IssuedIds == 1..nextId

\* window lengths the completion rate is asked for
RateWindows == {1, 7, 30, 40}

----------------------------------------------------------------------------
(* C1: calculateCurrentStreak(habitId) is the number of consecutive        *)
(* completed days counted backward from today up to the first incomplete   *)
(* day, over at most the 365 most recent days.                             *)
C1_CurrentStreakCountsBackFromToday ==
    \A h \in IssuedIds : CurrentStreak(h) = BackwardStreak(h)

(* C2: calculateCurrentStreak(habitId) is 0 if and only if the habit is    *)
(* not marked complete for today.                                          *)
C2_StreakZeroIffTodayIncomplete ==
    \A h \in IssuedIds :
        (CurrentStreak(h) = 0) <=> ~IsHabitCompleted(lsCompletions, h, Today)

(* C3: in every reachable state calculateLongestStreak(habitId) is at      *)
(* least calculateCurrentStreak(habitId), for every habit.                 *)
C3_LongestAtLeastCurrent ==
    \A h \in IssuedIds : LongestStreak(h) >= CurrentStreak(h)

\* a state where the current streak computed by the code is positive
C3_Witness ==
    \E h \in HabitIds(habits) : CurrentStreak(h) >= 1

(* C4: calculateLongestStreak(habitId) is the length of the longest run of *)
(* consecutive completed calendar days among the 365 most recent days      *)
(* ending today.                                                           *)
C4_LongestStreakIsLongestRun ==
    \A h \in IssuedIds : LongestStreak(h) = LongestRun(h)

\* number of the `days` most recent calendar days marked complete
CompletedRecentDays(habitId, days) ==
    Cardinality(CompletedDates(lsCompletions, habitId) \cap RecentDays(days))

(* C5: calculateCompletionRate(habitId, windowDays) is round-half-up of    *)
(* 100 * c / windowDays, c the number of days marked complete among the    *)
(* windowDays most recent calendar days ending today; the denominator is   *)
(* windowDays whatever the age of the habit.                               *)
C5_RateIsRoundedHalfUp ==
    \A h \in IssuedIds : \A n \in RateWindows :
        CompletionRate(h, n) = HalfUp(100 * CompletedRecentDays(h, n), n)

(* C6: in every reachable state calculateCompletionRate(habitId, n) is an  *)
(* integer between 0 and 100, for every habit and every n > 0.             *)
C6_RateBetween0And100 ==
    \A h \in IssuedIds : \A n \in RateWindows :
        CompletionRate(h, n) \in 0..100

\* a habit marked complete at this instant whose rate is 100 over one window
\* and strictly between 0 and 100 over another
C6_Witness ==
    \E h \in HabitIds(habits) :
        /\ \E k \in 1..Len(RecordsOf(lsCompletions, h)) :
              lsCompletions[h][k].timestamp = now
        /\ \E n \in RateWindows : CompletionRate(h, n) = 100
        /\ \E n \in RateWindows : CompletionRate(h, n) \in 1..99

(* C7: a habit with no completion record has completion rate 0 over 7      *)
(* days, current streak 0 and longest streak 0.                            *)
C7_NoRecordsAllZero ==
    \A h \in HabitIds(habits) :
        RecordsOf(lsCompletions, h) = <<>> =>
            /\ CompletionRate(h, 7) = 0
            /\ CurrentStreak(h) = 0
            /\ LongestStreak(h) = 0

\* a habit created at this instant, with no entry in the completion log
C7_Witness ==
    \E k \in 1..Len(habits) :
        /\ habits[k].createdAt = now
        /\ habits[k].id \notin DOMAIN lsCompletions

\* the (habitId, date, timestamp) triples of a completion log
RecordSet(completions) ==
    UNION { { <<h, completions[h][k].date, completions[h][k].timestamp>> :
                k \in 1..Len(completions[h]) } : h \in DOMAIN completions }

\* the instants at which a second call may come
LaterInstants == { now, now + 1, now + 24 }

(* C8: markComplete(habitId, date) is idempotent: applied twice in a row   *)
(* it leaves the completion records it left when applied once, and the     *)
(* second call adds no record.                                             *)
C8_MarkCompleteIdempotent ==
    \A h \in IssuedIds : \A d \in MarkDates :
        LET once == MarkHabitComplete(lsCompletions, h, d, now)
        IN  \A t \in LaterInstants :
                /\ MarkHabitComplete(once, h, d, t) = once
                /\ Len(MarkHabitComplete(once, h, d, t)[h]) = Len(once[h])

\* a day that markComplete can be asked for again holds a record pushed at
\* an earlier instant
C8_Witness ==
    \E h \in DOMAIN lsCompletions : \E k \in 1..Len(lsCompletions[h]) :
        /\ lsCompletions[h][k].date \in MarkDates
        /\ lsCompletions[h][k].timestamp >= StartHour
        /\ lsCompletions[h][k].timestamp < now

(* C9: markIncomplete(habitId, date) removes the record of (habitId, date) *)
(* if there is one and nothing else, changes nothing if there is none, and *)
(* a second call after the first changes nothing.                          *)
C9_MarkIncompleteIdempotent ==
    \A h \in IssuedIds : \A d \in MarkDates :
        LET once == MarkHabitIncomplete(lsCompletions, h, d)
        IN  /\ RecordSet(once) =
                  { r \in RecordSet(lsCompletions) : ~(r[1] = h /\ r[2] = d) }
            /\ ~IsHabitCompleted(lsCompletions, h, d) => once = lsCompletions
            /\ MarkHabitIncomplete(once, h, d) = once

\* the habit of the stored run has lost the record of one of the last two
\* days of the run and kept the older ones
C9_Witness ==
    \E h \in DOMAIN lsCompletions : \E d \in MarkDates :
        /\ d \in (ISODate(StartHour) - 1)..ISODate(StartHour)
        /\ ~IsHabitCompleted(lsCompletions, h, d)
        /\ IsHabitCompleted(lsCompletions, h, d - 2)

(* C10: right after markComplete(habitId, D) isCompleted(habitId, D) is    *)
(* true, and right after markIncomplete(habitId, D) it is false, in every  *)
(* state the operations are applied in.                                    *)
C10_CompletedAfterMarkNotAfterUnmark ==
    \A h \in IssuedIds : \A d \in MarkDates :
        /\ IsHabitCompleted(MarkHabitComplete(lsCompletions, h, d, now), h, d)
        /\ ~IsHabitCompleted(MarkHabitIncomplete(lsCompletions, h, d), h, d)

\* a record pushed at this instant, and a habit whose list was emptied
C10_Witness ==
    /\ \E h \in DOMAIN lsCompletions : \E k \in 1..Len(lsCompletions[h]) :
          lsCompletions[h][k].timestamp = now
    /\ \E h \in IssuedIds : \E d \in MarkDates :
          ~IsHabitCompleted(lsCompletions, h, d)

----------------------------------------------------------------------------
(* The whole application *)

(* C11: in every state reachable by addHabit, markComplete, markIncomplete, *)
(* deleteHabit, importData and clearAllData the completion log holds at     *)
(* most one record for each (habitId, date) pair.                           *)
C11_OneRecordPerHabitAndDate ==
    \A h \in DOMAIN lsCompletions :
        \A j, k \in 1..Len(lsCompletions[h]) :
            lsCompletions[h][j].date = lsCompletions[h][k].date => j = k

\* window lengths getHabitCompletions is asked for
CompletionWindows == RateWindows \cup {StreakWindow}

\* what is asked of the log c and the list hs that deleteHabit(h) left
DeletedEverywhere(h, c, hs, z, t) ==
    /\ RecordsOf(c, h) = <<>>
    /\ \A n \in CompletionWindows :
          CompletedCount(GetHabitCompletions(c, h, n, z, t)) = 0
    /\ GetHabitStats(hs, c, h, z, t) = Null

(* C12: after deleteHabit(habitId) on a habit that has completion history   *)
(* no record of that habit is left, getHabitCompletions for that id reports *)
(* no completed day, getHabitStats(habitId) is null, and the records of     *)
(* every other habit are unchanged.                                         *)
C12_DeleteHabitCascades ==
    [][\A h \in AppIds :
          (DeleteHabit(h) /\ RecordsOf(lsCompletions, h) # <<>>) =>
              \E c \in {lsCompletions'}, hs \in {habits'}, z \in {tz'}, t \in {now'} :
                  /\ DeletedEverywhere(h, c, hs, z, t)
                  /\ \A o \in DOMAIN lsCompletions \ {h} :
                        o \in DOMAIN c /\ c[o] = lsCompletions[o]]_vars

\* of the two imported habits, habit -1 and its records are gone while
\* habit 0 is held with its 23 records
C12_Witness ==
    /\ -1 \notin DOMAIN lsCompletions
    /\ -1 \notin HabitIds(habits)
    /\ 0 \in HabitIds(habits)
    /\ Len(RecordsOf(lsCompletions, 0)) = 23

\* ids that neither the stored list nor the manager's list holds: deleted,
\* replaced by an import, or never handed out
UnknownIds == (AppIds \cup {nextId + 1}) \ (HabitIds(habits) \cup HabitIds(lsHabits))

(* C13: getHabitStats, exportHabitData and updateHabit asked for a habit id *)
(* that is not in the registry return null (no exception), and the          *)
(* updateHabit step changes neither the habit list nor the completion log.  *)
C13_UnknownIdIsNullAndNoChange ==
    /\ [](\A h \in UnknownIds :
            /\ GetHabitStats(habits, lsCompletions, h, tz, now) = Null
            /\ ExportHabitData(habits, lsCompletions, h, tz, now) = Null
            /\ \A u \in UpdateInputs \cup FormInputs :
                  StorageUpdateHabit(lsHabits, h, u, now).result = Null)
    /\ [][\A h \in UnknownIds : \A u \in UpdateInputs :
            UpdateHabit(h, u) => UNCHANGED <<lsHabits, habits, lsCompletions>>]_vars

\* after two operations the log holds records of an id that is in neither
\* list
C13_Witness ==
    /\ ops = MaxOps
    /\ \E h \in UnknownIds : RecordsOf(lsCompletions, h) # <<>>

OverallStats == GetOverallStats(habits, lsCompletions, tz, now)

(* C14: getOverallStats never divides by zero: with zero habits it returns  *)
(* todayProgress = 0, bestStreak = 0 and overallSuccess = 0, and whenever   *)
(* the summed days-since-creation denominator is 0 it returns               *)
(* overallSuccess = 0.                                                      *)
C14_NoDivisionByZero ==
    /\ Len(habits) = 0 =>
          /\ OverallStats.todayProgress = 0
          /\ OverallStats.bestStreak = 0
          /\ OverallStats.overallSuccess = 0
    /\ TotalPossibleDays(habits, now) = 0 => OverallStats.overallSuccess = 0

\* a habit created at this instant and marked complete for today: one
\* completion over a denominator of 0 days
C14_Witness ==
    /\ Len(habits) > 0
    /\ TotalPossibleDays(habits, now) = 0
    /\ \E k \in 1..Len(habits) : IsHabitCompleted(lsCompletions, habits[k].id, Today)

\* number of held habits completed today
CompletedToday ==
    Cardinality({ k \in 1..Len(habits) :
                    IsHabitCompleted(lsCompletions, habits[k].id, Today) })

\* sum over the held habits of the totalCompletions of their statistics
SumTotalCompletions ==
    SumSeq([k \in 1..Len(habits) |->
                GetHabitStats(habits, lsCompletions, habits[k].id, tz, now).totalCompletions],
           Len(habits))

(* C15: for every non-empty set of habits getOverallStats returns           *)
(* bestStreak = the maximum longestStreak over the habits, todayProgress =  *)
(* the rounded percentage of habits completed today, and overallSuccess =   *)
(* round(100 * sum of totalCompletions / sum of min(days since creation,    *)
(* 365)), rounding half up, wherever that sum of days is positive.          *)
C15_OverallStatsFigures ==
    Len(habits) > 0 =>
        /\ OverallStats.bestStreak =
              MaxOf({ LongestStreak(habits[k].id) : k \in 1..Len(habits) })
        /\ OverallStats.todayProgress = HalfUp(100 * CompletedToday, Len(habits))
        /\ TotalPossibleDays(habits, now) > 0 =>
              OverallStats.overallSuccess =
                  HalfUp(100 * SumTotalCompletions, TotalPossibleDays(habits, now))

\* the statistics queries give at the instants t1 and t2 the same results
\* on the habits and the log of this state
SameStatistics(t1, t2) ==
    /\ GetOverallStats(habits, lsCompletions, tz, t1) =
          GetOverallStats(habits, lsCompletions, tz, t2)
    /\ \A h \in HabitIds(habits) :
          GetHabitStats(habits, lsCompletions, h, tz, t1) =
              GetHabitStats(habits, lsCompletions, h, tz, t2)

(* C16: the statistics queries leave the habit list, the completion log and *)
(* the settings unchanged (they are operators of the state here: none of    *)
(* them is a step), and two calls with the same habits, the same completion *)
(* log and the same current date return the same result.                    *)
C16_SameInputsSameStatistics ==
    [][(/\ habits' = habits
        /\ lsCompletions' = lsCompletions
        /\ now' # now
        /\ ISODate(now') = ISODate(now))
       => \E t2 \in {now'} : SameStatistics(now, t2)]_vars

(* C17: getHabitCompletions(habitId, days) returns exactly `days` pairs     *)
(* (date, completed) for distinct consecutive calendar days, oldest first,  *)
(* the last one being today, and completed is true exactly when             *)
(* isHabitCompleted(habitId, date) is true.                                 *)
C17_WindowIsTheLastDays ==
    \A h \in AppIds : \A n \in CompletionWindows :
        LET cs == GetHabitCompletions(lsCompletions, h, n, tz, now)
        IN  /\ Len(cs) = n
            /\ \A k \in 1..n :
                  /\ cs[k].date = Today - (n - k)
                  /\ cs[k].completed = IsHabitCompleted(lsCompletions, h, cs[k].date)

\* the list `after` is the list `before` with the habit at index i given
\* the fields of u and a new updatedAt, and nothing else changed
OnlyUpdated(before, after, i, u) ==
    /\ Len(after) = Len(before)
    /\ \A k \in 1..Len(before) :
          IF k = i
          THEN /\ after[k].id = before[k].id
               /\ after[k].createdAt = before[k].createdAt
               /\ DOMAIN after[k] = DOMAIN before[k] \cup DOMAIN u
               /\ \A f \in DOMAIN before[k] \ (DOMAIN u \cup {"updatedAt"}) :
                     after[k][f] = before[k][f]
          ELSE after[k] = before[k]

(* C18: updateHabit(habitId, updates) on an existing habit never changes    *)
(* the habit's id or createdAt, for any updates object, and changes no      *)
(* other habit; only the updated fields and updatedAt of that habit change. *)
C18_UpdateKeepsIdentity ==
    [][\A h \in AppIds : \A u \in UpdateInputs :
          (UpdateHabit(h, u) /\ h \in HabitIds(lsHabits)) =>
              /\ OnlyUpdated(lsHabits, lsHabits', FindIndex(lsHabits, h), u)
              /\ OnlyUpdated(habits, habits', FindIndex(habits, h), u)]_vars

\* the messages of the validation rules that a record of habit data
\* violates: empty name, name over 100 characters, frequency outside
\* {daily, weekly}, description over 500 characters
ViolatedRules(habitData) ==
    (IF Len(habitData.name) = 0 THEN {NameRequired} ELSE {})
    \cup (IF Len(habitData.name) > MaxNameLength THEN {NameTooLong} ELSE {})
    \cup (IF habitData.frequency \notin {"daily", "weekly"}
          THEN {FrequencyRequired} ELSE {})
    \cup (IF Len(habitData.description) > MaxDescriptionLength
          THEN {DescriptionTooLong} ELSE {})

Reported(habitData) ==
    LET errors == ValidateHabitData(habitData).errors
    IN  { errors[k] : k \in 1..Len(errors) }

(* C19: habit data that violates a validation rule is checked before any    *)
(* state change: a submission of the habit form (add or update) with such   *)
(* data reports every violated rule and leaves the habit list, the          *)
(* completion log and the reminder settings unchanged.                      *)
C19_InvalidDataChangesNothing ==
    [][\A e \in EditingHabits : \A d \in FormInputs :
          (SubmitHabitForm(e, d) /\ ViolatedRules(d) # {}) =>
              /\ ViolatedRules(d) \subseteq Reported(d)
              /\ UNCHANGED <<lsHabits, habits, lsCompletions, lsSettings>>]_vars

\* the document lacks one of the expected top-level keys
LacksKey(data) ==
    data = Null \/ ~({"habits", "completions", "settings"} \subseteq DOMAIN data)

(* C20: import is all-or-nothing: importData of a document that lacks any   *)
(* of the keys habits, completions, settings is rejected as a whole and     *)
(* leaves the stored habits, completions and settings as they were.         *)
C20_PartialImportRejected ==
    [][\A data \in ImportDocs :
          (ImportData(data) /\ LacksKey(data)) =>
              /\ ~StorageImportData([habits |-> lsHabits,
                                     completions |-> lsCompletions,
                                     settings |-> lsSettings], data).result
              /\ UNCHANGED <<lsHabits, lsCompletions, lsSettings>>]_vars

----------------------------------------------------------------------------
(* The completion log against the registry *)

\* C27: in every state reached by addHabit, deleteHabit, markComplete and
\* markIncomplete on any habit id, a deleted habit's id included, every
\* habit id that owns at least one completion record is the id of a habit
\* of the registry.
C27_RecordsBelongToHabits ==
    \A h \in DOMAIN lsCompletions :
        Len(lsCompletions[h]) > 0 => h \in HabitIds(lsHabits)

----------------------------------------------------------------------------
(* Export and import *)

\* C21: round trip.  In every reachable store, the empty one included, the
\* document exportData returns, handed to importData on an empty store, is
\* accepted and leaves habits, completions and settings equal to those of
\* the store it was exported from.
C21_ExportImportRoundTrip ==
    LET imported == StorageImportData(StorageClearAllData, ExportData(Store, now))
    IN  /\ imported.result
        /\ imported.store = Store

\* a store with a habit, a record and a reminder goes through the round trip
C21_Witness ==
    /\ lsHabits # <<>>
    /\ \E h \in DOMAIN lsCompletions : Len(lsCompletions[h]) > 0
    /\ lsSettings # DefaultSettings
    /\ StorageImportData(StorageClearAllData, ExportData(Store, now)).store = Store

----------------------------------------------------------------------------
(* The range of the overall percentages *)

\* C29: overallSuccess and todayProgress, as getOverallStats returns them,
\* are integers from 0 to 100, whatever the creation times of the habits
\* and the dates of their completions.
C29_OverallPercentagesInRange ==
    /\ OverallStats.overallSuccess \in 0..100
    /\ OverallStats.todayProgress \in 0..100

----------------------------------------------------------------------------
(* A localStorage that throws *)

\* C22: a storage read or write that fails, localStorage throwing, never
\* lets an exception out of a StorageManager or HabitManager operation: the
\* read gives the empty default, the write is dropped, and the operation
\* returns.
C22_NoExceptionLeavesTheStorage == ~thrown

\* the operations of C28, on any of their arguments
RegistryOperation ==
    \/ \E d \in HabitInputs : AddHabit(d)
    \/ \E h \in AppIds, u \in UpdateInputs : UpdateHabit(h, u)
    \/ \E h \in AppIds : DeleteHabit(h)
    \/ \E data \in ImportDocs : ImportData(data)
    \/ ClearAllData

\* C28: after every addHabit, updateHabit and deleteHabit of the
\* HabitManager, and after importData and clearAllData of the application,
\* the in-memory list habitManager.habits holds exactly the habits held in
\* storage, also after a storage write has failed.
C28_MemoryListIsTheStoredList ==
    [][RegistryOperation => habits' = lsHabits']_vars

----------------------------------------------------------------------------
(* The timers of the page *)

\* the reminder timeouts that are pending
PendingReminders ==
    { h \in DOMAIN reminderIntervals : reminderIntervals[h].pending }

\* C23: after HabitTrackerApp.cleanup, at page unload, no interval or
\* timeout of the application is pending: the auto-save interval, the two
\* periodic intervals, every reminder timeout and the daily-summary timeout
\* are cancelled.
C23_NothingPendingAfterCleanup ==
    page = "unloaded" =>
        /\ ~autoSaveInterval
        /\ periodicIntervals = 0
        /\ PendingReminders = {}
        /\ summaryTimeouts = 0

\* C30: at any time after start-up at most one daily-summary timeout is
\* pending, so that sendDailySummary runs at most once a day.
C30_OneDailySummaryTimeout ==
    page = "loaded" => summaryTimeouts <= 1

\* C25: a reminder recurs daily.  Once scheduleReminder has succeeded for a
\* habit of the list, with permission granted, every firing of the
\* habit's reminder timeout leaves a new timeout pending for the habit.
C25_ReminderRecurs ==
    [][\A h \in DOMAIN reminderIntervals :
          (/\ ReminderFires(h)
           /\ permission = "granted"
           /\ h \in HabitIds(habits))
          => h \in PendingReminders']_vars

\* C26: a saved reminder survives a reload of the page.  An entry of
\* settings.reminderTimes for a habit of the registry is still stored after
\* the unload, and the loadReminders of the next start-up leaves a timeout
\* pending for every such entry.
C26_ReminderSurvivesReload ==
    [][/\ Unload =>
            \A h \in HabitIds(lsHabits) \cap DOMAIN lsSettings.reminderTimes :
                /\ h \in DOMAIN lsSettings'.reminderTimes
                /\ lsSettings'.reminderTimes[h] = lsSettings.reminderTimes[h]
       /\ Load =>
            \A h \in HabitIds(lsHabits) \cap DOMAIN lsSettings.reminderTimes :
                h \in PendingReminders']_vars

----------------------------------------------------------------------------
(* Streak notifications *)

\* the calls of sendStreakNotification a step makes: those of
\* toggleHabitCompletion when it marks the habit complete, and those of the
\* hourly checkStreakMilestones when the hour that passes ends on a loaded
\* page; hs, completions, z and t are the lists and the clock after the step
StreakNotifications(hs, completions, z, t) ==
    UNION { ToggleNotifications(hs, completions, h, z, t) :
              h \in { x \in AppIds :
                        /\ ToggleHabitCompletion(x)
                        /\ ~IsHabitCompleted(GetCompletions, x, Today) } }
    \cup
    (IF TickHour /\ Loaded /\ periodicIntervals > 0
     THEN CheckStreakMilestones(hs, completions, z, t)
     ELSE {})

\* C24: sendStreakNotification(habitId, n) is called only when the current
\* streak of the habit has just reached n, that is, is n after the step and
\* was not n before it, and n is one of 7, 30 and 100; on both paths,
\* toggleHabitCompletion and the hourly checkStreakMilestones.
C24_StreakNotificationOnlyAtMilestone ==
    [][\E hs \in {habits'}, c1 \in {IF storage = "denied" THEN EmptyCompletions
                                     ELSE lsCompletions'},
          z \in {tz'}, t \in {now'} :
          \A call \in StreakNotifications(hs, c1, z, t) :
              /\ call.streakCount \in Milestones
              /\ CalculateCurrentStreak(c1, call.habitId, z, t) = call.streakCount
              /\ CalculateCurrentStreak(GetCompletions, call.habitId, tz, now)
                    # call.streakCount]_vars

====
